---- MODULE Spec2Model ----
(***************************************************************************)
(* MRMap GPS connector (main.pyw): a UDP listener that extracts the first  *)
(* $GPGGA sentence of every datagram, parses it, gates it on accuracy,     *)
(* projects it to OSGB36, decides with a moving/stationary debounce        *)
(* whether to report it, and POSTs it with bounded retry.                  *)
(*                                                                         *)
(* Text is a sequence of one-character strings.  A float is a fixed-point  *)
(* integer counting thousandths (Scale); a latitude or longitude counts   *)
(* thousandths of an arc minute (degrees * 60 * Scale), so that            *)
(* degrees + minutes / 60 is exact; a position is <<latitude, longitude>>. *)
(* None is the Python None, Unset a local not yet assigned.                *)
(***************************************************************************)
EXTENDS Integers, Sequences, FiniteSets, TLC

\* None, as a value to compare tuples and text with
None == <<"None">>

\* thousandths: three fractional digits of a float are kept
Scale == 10 * 10 * 10

(***************************************************************************)
(* Bounds of the model.                                                    *)
(***************************************************************************)
\* largest reading of the wall clock, in seconds
MaxClock == 4
\* largest max_retries a direct call of make_api_request_with_retry passes
MaxRetries == 3
\* what the wall clock reads when main starts
StartTime == 0

(***************************************************************************)
(* Python str operations used by the program.                              *)
(***************************************************************************)
Whitespace == {" ", "\n", "\r", "\t"}

Digits == {"0", "1", "2", "3", "4", "5", "6", "7", "8", "9"}

DigitVal(c) ==
    CASE c = "0" -> 0 [] c = "1" -> 1 [] c = "2" -> 2 [] c = "3" -> 3
      [] c = "4" -> 4 [] c = "5" -> 5 [] c = "6" -> 6 [] c = "7" -> 7
      [] c = "8" -> 8 [] c = "9" -> 9

\* s[:n]
Take(s, n) == SubSeq(s, 1, IF n < Len(s) THEN n ELSE Len(s))

\* s[n:]
Drop(s, n) == SubSeq(s, n + 1, Len(s))

RECURSIVE LStrip(_)
LStrip(s) ==
    IF s # <<>> /\ Head(s) \in Whitespace THEN LStrip(Tail(s)) ELSE s

RECURSIVE RStrip(_)
RStrip(s) ==
    IF s # <<>> /\ s[Len(s)] \in Whitespace
    THEN RStrip(SubSeq(s, 1, Len(s) - 1))
    ELSE s

\* str.strip()
Strip(s) == RStrip(LStrip(s))

\* str.startswith(p)
StartsWith(s, p) == Len(s) >= Len(p) /\ SubSeq(s, 1, Len(p)) = p

\* index of the first sep in s, 0 when there is none
RECURSIVE FindChar(_, _, _)
FindChar(s, sep, i) ==
    IF i > Len(s) THEN 0
    ELSE IF s[i] = sep THEN i
    ELSE FindChar(s, sep, i + 1)

\* str.split(sep) for a one-character separator: never an empty list
RECURSIVE Split(_, _)
Split(s, sep) ==
    LET i == FindChar(s, sep, 1)
    IN  IF i = 0 THEN <<s>>
        ELSE <<SubSeq(s, 1, i - 1)>> \o Split(Drop(s, i), sep)

RECURSIVE DigitsValue(_)
DigitsValue(s) ==
    IF s = <<>> THEN 0
    ELSE 10 * DigitsValue(SubSeq(s, 1, Len(s) - 1)) + DigitVal(s[Len(s)])

AllDigits(s) == \A i \in 1..Len(s) : s[i] \in Digits

\* the fraction digits of a float as thousandths (digits past the third are
\* dropped)
FractionValue(s) ==
    LET t == Take(s, 3)
    IN  CASE Len(t) = 0 -> 0
          [] Len(t) = 1 -> 100 * DigitsValue(t)
          [] Len(t) = 2 -> 10 * DigitsValue(t)
          [] Len(t) = 3 -> DigitsValue(t)

\* float(s): ok is FALSE for ValueError.  Accepted: surrounding whitespace,
\* one optional sign, digits with at most one point and at least one digit.
\* (Exponents, "inf", "nan" and underscores are outside the inputs modelled.)
PyFloat(s) ==
    LET t    == Strip(s)
        neg  == t # <<>> /\ Head(t) = "-"
        u    == IF t # <<>> /\ Head(t) \in {"-", "+"} THEN Tail(t) ELSE t
        p    == FindChar(u, ".", 1)
        ip   == IF p = 0 THEN u ELSE SubSeq(u, 1, p - 1)
        fp   == IF p = 0 THEN <<>> ELSE Drop(u, p)
        ok   == AllDigits(ip) /\ AllDigits(fp) /\ Len(ip) + Len(fp) > 0
        mag  == Scale * DigitsValue(ip) + FractionValue(fp)
    IN  [ok |-> ok, value |-> IF ~ok THEN 0 ELSE IF neg THEN 0 - mag ELSE mag]

GPGGA == <<"$", "G", "P", "G", "G", "A">>

FirstLine(lines) == IF lines = <<>> THEN <<>> ELSE Head(lines)

RECURSIVE LastGPGGA(_)
LastGPGGA(lines) ==
    IF lines = <<>> THEN <<>>
    ELSE IF StartsWith(lines[Len(lines)], GPGGA) THEN lines[Len(lines)]
    ELSE LastGPGGA(SubSeq(lines, 1, Len(lines) - 1))

\* the first line that starts with $GPGGA, or the empty string
RECURSIVE FirstGPGGA(_)
FirstGPGGA(lines) ==
    IF lines = <<>> THEN <<>>
    ELSE IF StartsWith(Head(lines), GPGGA) THEN Head(lines)
    ELSE FirstGPGGA(Tail(lines))

filter_nmea_sentence(sentence) == FirstGPGGA(Split(Strip(sentence), "\n"))

HemisphereIgnored(value, field, negative) == value

\* lines 49-50 and 54-55: -0.0 is 0 here, as it is for every comparison
Hemisphere(value, field, negative) ==
    IF field = <<negative>> THEN 0 - value ELSE value

\* the outcome of parse_nmea_sentence, with the branch that produced it:
\* kind is "fix", "empty" (line 42), "unsupported" (line 63) or "malformed"
\* (IndexError or ValueError, line 67); value is what the caller receives.
ParseOutcome(sentence) ==
    LET data  == Split(sentence, ",")
        has(i) == Len(data) >= i + 1
        f(i)  == data[i + 1]
        latD  == PyFloat(Take(f(2), 2))
        latM  == PyFloat(Drop(f(2), 2))
        lonD  == PyFloat(Take(f(4), 3))
        lonM  == PyFloat(Drop(f(4), 3))
        acc   == PyFloat(f(8))
        \* degrees + minutes / 60, in thousandths of an arc minute
        lat0  == 60 * latD.value + latM.value
        lon0  == 60 * lonD.value + lonM.value
        bad   == [kind |-> "malformed", value |-> None]
    IN  IF sentence = <<>> THEN [kind |-> "empty", value |-> None]
        ELSE IF ~StartsWith(sentence, GPGGA)
        THEN [kind |-> "unsupported", value |-> None]
        ELSE IF ~has(2) \/ ~latD.ok \/ ~latM.ok THEN bad
        ELSE IF ~has(3) THEN bad
        ELSE IF ~has(4) \/ ~lonD.ok \/ ~lonM.ok THEN bad
        ELSE IF ~has(5) THEN bad
        ELSE IF ~has(8) \/ ~acc.ok THEN bad
        ELSE [kind  |-> "fix",
              value |-> <<Hemisphere(lat0, f(3), "S"),
                          Hemisphere(lon0, f(5), "W"),
                          acc.value>>]

parse_nmea_sentence(sentence) == ParseOutcome(sentence).value

Abs(x) == IF x < 0 THEN 0 - x ELSE x

earth_radius_meters == 6371000

\* earth_radius_meters * pi / 180 / 60: the arc of one minute of a great
\* circle, in millimetres (pi / 10800 = 0.000290888; the product is split to
\* stay within 32 bits)
MinuteArcMillimetres == ((earth_radius_meters \div 1000) * 290888) \div 1000

\* x * MinuteArcMillimetres / (Scale * 1000), rounded up to whole metres;
\* for an integer threshold, distance > threshold iff the rounded-up
\* distance > threshold.  The product is split to stay within 32 bits.
ArcMetres(u) ==
    LET perUnit == MinuteArcMillimetres \div Scale
        whole   == (u \div 1000) * perUnit
        part    == ((u % 1000) * perUnit + 999) \div 1000
    IN  whole + part

\* The haversine formula in the two cases where it has a closed form:
\* with dlon = 0, a = sin^2(dlat/2) and c = |dlat|; on the equator
\* (lat1 = lat2 = 0), a = sin^2(dlon/2) and c = |dlon| up to half a turn.
\* Pairs of positions outside these cases are outside the model.
haversine_distance(coord1, coord2) ==
    LET dlat == coord2[1] - coord1[1]
        dlon == coord2[2] - coord1[2]
        half == 180 * 60 * Scale
    IN  CASE dlon = 0 -> ArcMetres(Abs(dlat))
          [] dlon # 0 /\ coord1[1] = 0 /\ coord2[1] = 0 ->
                ArcMetres(IF Abs(dlon) <= half THEN Abs(dlon)
                          ELSE 2 * half - Abs(dlon))

has_moved_at_threshold(previous_position, current_position, threshold_distance) ==
    haversine_distance(previous_position, current_position) >= threshold_distance

\* In main the arguments are the variables of the same names.
has_moved(previous_position, current_position, threshold_distance) ==
    haversine_distance(previous_position, current_position) > threshold_distance

(***************************************************************************)
(* Inputs: datagrams, configurations, outcomes of the external calls.      *)
(***************************************************************************)
RECURSIVE Join(_, _)
Join(fields, sep) ==
    IF Len(fields) = 1 THEN fields[1]
    ELSE fields[1] \o <<sep>> \o Join(Tail(fields), sep)

\* "$GPGGA,123519,<lat>,<ns>,<lon>,<ew>,1,08,<acc>"
GGA(lat, ns, lon, ew, acc) ==
    Join(<<GPGGA, <<"1", "2", "3", "5", "1", "9">>, lat, <<ns>>, lon, <<ew>>,
           <<"1">>, <<"0", "8">>, acc>>, ",")

GPGLL == <<"$", "G", "P", "G", "L", "L", ",", "0", ",", "N">>

Lat0   == <<"0", "0", "0", "0", ".", "0", "0", "0">>
Lat50  == <<"0", "0", "0", "0", ".", "0", "5", "0">>
Lat100 == <<"0", "0", "0", "0", ".", "1", "0", "0">>
LatBad == <<"0", "0", "x", "0", ".", "1", "0", "0">>
Lon0   == <<"0", "0", "0", "0", "0", ".", "0", "0", "0">>
AccGood  == <<"0", ".", "9">>
AccLimit == <<"1", "0", "0">>
AccOver  == <<"1", "0", "0", ".", "1">>

\* a byte that is no UTF-8 text
BadByte == "xFF"

\* The datagrams the socket delivers; <<>> is the empty payload.  Every fix
\* lies on the meridian of MotionState's initial position (0.0, 0.0): 0,
\* 0.05 and 0.1 minutes of latitude are 0 m, 93 m and 186 m apart.
Datagrams ==
    { <<>>,
      <<"\n">>,
      <<BadByte>>,
      GPGLL \o <<"\n">>,
      GPGLL \o <<"\r", "\n">> \o GGA(Lat100, "N", Lon0, "E", AccGood) \o <<"\r", "\n">>,
      GGA(Lat0, "N", Lon0, "E", AccGood) \o <<"\n">>,
      GGA(Lat50, "N", Lon0, "E", AccLimit) \o <<"\n">>,
      GGA(Lat50, "S", Lon0, "W", AccGood),
      GGA(Lat100, "N", Lon0, "E", AccOver) \o <<"\n">>,
      GGA(LatBad, "N", Lon0, "E", AccGood) \o <<"\n">>,
      Join(<<GPGGA, <<"1">>, Lat50, <<"N">>, Lon0>>, ",") }

\* config.ini, section Variables
Configs ==
    [moving_time_limit : {1, 3}, stationary_time_limit : {2},
     distance_limit : {0, 100}]

\* what transformer.transform returns (thousandths of a metre)
Projections == {<<651409903, 0 - 500>>}

\* what requests.post and raise_for_status end in
PostOutcomes ==
    {"ok", "HTTPError", "ConnectionError", "Timeout", "RequestException"}

\* bytes.decode('utf-8'): None stands for UnicodeDecodeError
Decode(raw) ==
    IF \E i \in 1..Len(raw) : raw[i] = BadByte THEN None ELSE raw

\* math.floor of a fixed-point float
Floor(x) == x \div Scale

ACCURACY_LIMIT == 100
THREE_RETRIES == 1 + 2
DEFAULT_MAX_RETRIES == 1
RETRY_DELAY == 2

(***************************************************************************)
(* State.  pc is the position of the single thread:                        *)
(*   "recv"          blocked in s.recv (line 173), the cycle boundary      *)
(*   "parse"         lines 178-183     "project"  lines 184-186            *)
(*   "decide"        lines 188-200 and 205-208                             *)
(*   "for"           the for statement of make_api_request_with_retry      *)
(*   "post"          lines 103-117     "backoff"  lines 119-121            *)
(*   "returned"      the call has returned result                          *)
(*   "set_position"  between the assignments of lines 203 and 204          *)
(*   "exited"        after break       "crashed"  an exception left main   *)
(*   "idle"          a direct caller of make_api_request_with_retry or of  *)
(*                   the parser, "parsed" once the parser has returned     *)
(* The locals of main are Unset until the cycle assigns them: each is      *)
(* written before it is read in every cycle.                               *)
(***************************************************************************)
VARIABLES
    pc,
    clock,              \* what time.time() returns now
    cfg,                \* moving_time_limit, stationary_time_limit, distance_limit
    previous_position,  \* MotionState.lastReportedPosition
    last_request_time,  \* MotionState.lastReportedAtInstant
    data,               \* the text of the datagram s.recv returned last
    parsed_data,
    projected,          \* <<easting, northing>> after math.floor
    has_moved_flag,
    current_time,
    payload,
    max_retries,
    attempt,
    result,
    trace,              \* history: what each POST of this call ended in, and "sleep"
    crash,              \* history: the exception that left main
    monotone,           \* history: the clock never went backwards
    state0,             \* history: MotionState when the cycle began
    decision,           \* history: "Report" or "Skip" once the cycle decided
    writes,             \* history: assignments to MotionState in this cycle
    pending,            \* history: Failed dispatches not yet retried, per classification
    retryOf             \* history: the Failed dispatch this cycle's decision follows

vars ==
    <<pc, clock, cfg, previous_position, last_request_time, data,
      parsed_data, projected, has_moved_flag, current_time, payload,
      max_retries, attempt, result, trace, crash, monotone, state0, decision,
      writes, pending, retryOf>>

Unset == <<"Unset">>

MotionState == [position |-> previous_position, time |-> last_request_time]

mainLocals == <<parsed_data, projected, has_moved_flag, current_time, payload>>

callVars == <<max_retries, attempt, result, trace>>

history == <<state0, decision, writes, pending, retryOf>>

Init ==
    /\ pc = "recv"
    /\ clock = StartTime
    /\ cfg \in Configs
    /\ previous_position = <<0, 0>>
    /\ last_request_time = clock
    /\ data = Unset
    /\ parsed_data = Unset
    /\ projected = Unset
    /\ has_moved_flag = Unset
    /\ current_time = Unset
    /\ payload = Unset
    /\ max_retries = Unset
    /\ attempt = Unset
    /\ result = Unset
    /\ trace = <<>>
    /\ crash = "none"
    /\ monotone = TRUE
    /\ state0 = MotionState
    /\ decision = "none"
    /\ writes = [time |-> 0, position |-> 0]
    /\ pending = [moved |-> "none", still |-> "none"]
    /\ retryOf = "none"

(***************************************************************************)
(* The listening loop of main.                                             *)
(***************************************************************************)
\* lines 173-176: the receive blocks for any time, during which the wall
\* clock may also be set back; undecodable bytes raise out of main.
Recv ==
    /\ pc = "recv"
    /\ \E raw \in Datagrams, t \in 0..MaxClock :
          /\ clock' = t
          /\ monotone' = (monotone /\ t >= clock)
          /\ IF Decode(raw) = None
             THEN pc' = "crashed" /\ crash' = "UnicodeDecodeError" /\ data' = data
             ELSE /\ data' = Decode(raw)
                  /\ crash' = crash
                  /\ pc' = IF Decode(raw) = <<>> THEN "exited" ELSE "parse"
    /\ parsed_data' = Unset
    /\ projected' = Unset
    /\ has_moved_flag' = Unset
    /\ current_time' = Unset
    /\ payload' = Unset
    /\ max_retries' = Unset
    /\ attempt' = Unset
    /\ result' = Unset
    /\ trace' = <<>>
    /\ state0' = MotionState
    /\ decision' = "none"
    /\ writes' = [time |-> 0, position |-> 0]
    /\ retryOf' = "none"
    /\ UNCHANGED <<cfg, previous_position, last_request_time, pending>>

AccuracyBelowLimit(accuracy) == accuracy < ACCURACY_LIMIT * Scale

\* line 183
AccuracyAcceptable(accuracy) == accuracy <= ACCURACY_LIMIT * Scale

\* lines 178-183
Parse ==
    /\ pc = "parse"
    /\ parsed_data' = parse_nmea_sentence(filter_nmea_sentence(data))
    /\ pc' = IF parsed_data' # None /\ AccuracyAcceptable(parsed_data'[3])
             THEN "project"
             ELSE "recv"
    /\ UNCHANGED <<clock, cfg, previous_position, last_request_time, data,
                   projected, has_moved_flag, current_time, payload,
                   callVars, crash, monotone, history>>

\* lines 184-186: convert_to_osgb36 returns a pair, or None after a library
\* error (lines 25-27), which the tuple assignment of line 184 cannot unpack.
Project ==
    /\ pc = "project"
    /\ \E r \in Projections \cup {None} :
          IF r = None
          THEN /\ projected' = None
               /\ pc' = "crashed"
               /\ crash' = "TypeError"
          ELSE /\ projected' = <<Floor(r[1]), Floor(r[2])>>
               /\ pc' = "decide"
               /\ crash' = crash
    /\ UNCHANGED <<clock, cfg, previous_position, last_request_time, data,
                   parsed_data, has_moved_flag, current_time, payload,
                   callVars, monotone, history>>

FixPosition == <<parsed_data[1], parsed_data[2]>>

MovingDueInverted(time_since_last_request) ==
    time_since_last_request <= cfg.moving_time_limit

MovingOverdue(time_since_last_request) ==
    time_since_last_request > cfg.moving_time_limit

\* line 197
MovingDue(time_since_last_request) ==
    time_since_last_request >= cfg.moving_time_limit

\* line 205
StationaryDue(time_since_last_request) ==
    time_since_last_request >= cfg.stationary_time_limit

\* lines 196-197 and 205: is a request made?
Reports(moved, time_since_last_request) ==
    IF moved THEN MovingDue(time_since_last_request)
    ELSE StationaryDue(time_since_last_request)

Classification(moved) == IF moved THEN "moved" ELSE "still"

\* lines 188-201 and 205-209, up to the call of make_api_request_with_retry
\* with its default max_retries
Decide ==
    /\ pc = "decide"
    /\ has_moved_flag' = has_moved(previous_position, FixPosition, cfg.distance_limit)
    /\ current_time' = clock
    /\ LET report == Reports(has_moved_flag', current_time' - last_request_time)
           k      == Classification(has_moved_flag')
       IN  /\ decision' = IF report THEN "Report" ELSE "Skip"
           /\ retryOf' = pending[k]
           /\ pending' = [pending EXCEPT ![k] = "none"]
           /\ IF report
              THEN /\ payload' = [x |-> projected[1], y |-> projected[2],
                                  validFor |-> "360"]
                   /\ max_retries' = DEFAULT_MAX_RETRIES
                   /\ attempt' = 0
                   /\ pc' = "for"
              ELSE /\ pc' = "recv"
                   /\ UNCHANGED <<payload, max_retries, attempt>>
    /\ UNCHANGED <<clock, cfg, previous_position, last_request_time, data,
                   parsed_data, projected, result, trace, crash,
                   monotone, state0, writes>>

(***************************************************************************)
(* make_api_request_with_retry.                                            *)
(***************************************************************************)
MoreAttemptsOneTooMany(done, limit) == done <= limit

MoreAttemptsAtLeastOnce(done, limit) == done = 0 \/ done + 1 <= limit

\* line 102: the calls of requests.post the loop may still make
MoreAttempts(done, limit) == done + 1 <= limit

\* lines 102 and 123-124: the next value of range(1, max_retries + 1), or
\* the end of the loop and return False
SendFor ==
    /\ pc = "for"
    /\ IF MoreAttempts(attempt, max_retries)
       THEN attempt' = attempt + 1 /\ pc' = "post" /\ result' = result
       ELSE attempt' = attempt /\ pc' = "returned" /\ result' = FALSE
    /\ UNCHANGED <<clock, cfg, previous_position, last_request_time, data,
                   mainLocals, max_retries, trace, crash, monotone,
                   history>>

ReturnsTrueOnSuccessOnly(outcome) == outcome = "ok"

\* lines 108-117: does this outcome of the POST end the call with True?
ReturnsTrue(outcome) == outcome \in {"ok", "HTTPError", "RequestException"}

\* lines 103-117: one POST, which takes up to a second here
SendPost ==
    /\ pc = "post"
    /\ \E outcome \in PostOutcomes, took \in 0..1 :
          /\ clock + took <= MaxClock
          /\ clock' = clock + took
          /\ trace' = Append(trace, outcome)
          /\ IF ReturnsTrue(outcome)
             THEN result' = TRUE /\ pc' = "returned"
             ELSE result' = result /\ pc' = "backoff"
    /\ UNCHANGED <<cfg, previous_position, last_request_time, data,
                   mainLocals, max_retries, attempt, crash, monotone, history>>

SleepsAfterEveryAttempt(n, limit) == n <= limit

\* line 119
SleepsBeforeRetry(n, limit) == n < limit

\* lines 119-121
SendBackoff ==
    /\ pc = "backoff"
    /\ IF SleepsBeforeRetry(attempt, max_retries)
       THEN /\ clock + RETRY_DELAY <= MaxClock
            /\ clock' = clock + RETRY_DELAY
            /\ trace' = Append(trace, "sleep")
       ELSE UNCHANGED <<clock, trace>>
    /\ pc' = "for"
    /\ UNCHANGED <<cfg, previous_position, last_request_time, data,
                   mainLocals, max_retries, attempt, result, crash, monotone,
                   history>>

(***************************************************************************)
(* Back in main.                                                           *)
(***************************************************************************)
UpdatesAlways(r) == TRUE

UpdatesNever(r) == FALSE

\* lines 202 and 210: if result
Updates(r) == r

ReportedAtReturn(decided, now) == now

\* lines 203 and 211: the instant stored is the one the decision read
ReportedAt(decided, now) == decided

\* lines 202-203 and 210-211
AfterSend ==
    /\ pc = "returned"
    /\ IF Updates(result)
       THEN /\ last_request_time' = ReportedAt(current_time, clock)
            /\ writes' = [writes EXCEPT !.time = @ + 1]
            /\ pending' = [k \in DOMAIN pending |->
                              IF pending[k] = "none" THEN "none" ELSE "stale"]
            /\ pc' = "set_position"
       ELSE /\ pending' = [pending EXCEPT
                              ![Classification(has_moved_flag)] = "fresh"]
            /\ pc' = "recv"
            /\ UNCHANGED <<last_request_time, writes>>
    /\ UNCHANGED <<clock, cfg, previous_position, data, mainLocals,
                   callVars, crash, monotone, state0, decision, retryOf>>

SetPositionLost ==
    /\ pc = "set_position"
    /\ pc' = "recv"
    /\ UNCHANGED <<clock, cfg, previous_position, last_request_time, data,
                   mainLocals, callVars, crash, monotone, history>>

\* lines 204 and 212
SetPosition ==
    /\ pc = "set_position"
    /\ previous_position' = FixPosition
    /\ writes' = [writes EXCEPT !.position = @ + 1]
    /\ pc' = "recv"
    /\ UNCHANGED <<clock, cfg, last_request_time, data, mainLocals,
                   callVars, crash, monotone, state0, decision, pending,
                   retryOf>>

Next ==
    \/ Recv
    \/ Parse
    \/ Project
    \/ Decide
    \/ SendFor
    \/ SendPost
    \/ SendBackoff
    \/ AfterSend
    \/ SetPosition

Spec == Init /\ [][Next]_vars

(***************************************************************************)
(* make_api_request_with_retry called directly, with any max_retries.      *)
(***************************************************************************)
CallSend ==
    /\ pc \in {"idle", "returned"}
    /\ \E n \in (0 - 1)..MaxRetries, t \in 0..MaxClock :
          /\ max_retries' = n
          /\ clock' = t
          /\ monotone' = (monotone /\ t >= clock)
    /\ attempt' = 0
    /\ result' = Unset
    /\ trace' = <<>>
    /\ pc' = "for"
    /\ UNCHANGED <<cfg, previous_position, last_request_time, data,
                   mainLocals, crash, history>>

InitSend ==
    /\ pc = "idle"
    /\ clock = StartTime
    /\ cfg \in Configs
    /\ previous_position = <<0, 0>>
    /\ last_request_time = clock
    /\ data = Unset
    /\ parsed_data = Unset
    /\ projected = Unset
    /\ has_moved_flag = Unset
    /\ current_time = Unset
    /\ payload = Unset
    /\ max_retries = Unset
    /\ attempt = Unset
    /\ result = Unset
    /\ trace = <<>>
    /\ crash = "none"
    /\ monotone = TRUE
    /\ state0 = MotionState
    /\ decision = "none"
    /\ writes = [time |-> 0, position |-> 0]
    /\ pending = [moved |-> "none", still |-> "none"]
    /\ retryOf = "none"

NextSend ==
    \/ CallSend
    \/ SendFor
    \/ SendPost
    \/ SendBackoff

SpecSend == InitSend /\ [][NextSend]_vars

(***************************************************************************)
(* Properties of the decision (lines 188-212).                             *)
(***************************************************************************)
InCall == pc \in {"for", "post", "backoff", "returned", "set_position"}

\* the cycle has decided, and dispatched exactly when it decided Report
DecidedAndDispatched(report) ==
    /\ decision = IF report THEN "Report" ELSE "Skip"
    /\ IF report THEN InCall \/ trace # <<>>
                 ELSE pc = "recv" /\ trace = <<>>

\* C1: once a cycle has decided on a fix farther than distance_limit from
\* the position MotionState held, it dispatches iff the time since the
\* instant MotionState held is at least moving_time_limit, whatever
\* stationary_time_limit is; otherwise no POST is made.
C1_MovedReportsIffMovingLimitElapsed ==
    (decision # "none"
        /\ haversine_distance(state0.position, FixPosition) > cfg.distance_limit)
    => DecidedAndDispatched(current_time - state0.time >= cfg.moving_time_limit)

\* a moved fix reported exactly at moving_time_limit, before
\* stationary_time_limit has elapsed
C1_Witness ==
    /\ decision = "Report"
    /\ haversine_distance(state0.position, FixPosition) > cfg.distance_limit
    /\ current_time - state0.time = cfg.moving_time_limit
    /\ current_time - state0.time < cfg.stationary_time_limit
    /\ trace # <<>>

\* C2: once a cycle has decided on a fix at most distance_limit away (a
\* distance equal to the limit included), it dispatches iff the time since
\* the instant MotionState held is at least stationary_time_limit, whatever
\* moving_time_limit is.
C2_StillReportsIffStationaryLimitElapsed ==
    (decision # "none"
        /\ haversine_distance(state0.position, FixPosition) <= cfg.distance_limit)
    => DecidedAndDispatched(current_time - state0.time >= cfg.stationary_time_limit)

\* a fix exactly distance_limit away reported exactly at
\* stationary_time_limit, before moving_time_limit has elapsed
C2_Witness ==
    /\ decision = "Report"
    /\ haversine_distance(state0.position, FixPosition) = cfg.distance_limit
    /\ current_time - state0.time = cfg.stationary_time_limit
    /\ current_time - state0.time < cfg.moving_time_limit
    /\ trace # <<>>

\* C3: MotionState is assigned only after the call returned True in a cycle
\* that decided Report, each field at most once per cycle, and at the cycle
\* boundary either both fields were assigned (the call returned True) or
\* neither was and MotionState is what it was when the cycle began.
C3_MotionStateUpdatedOnceTogether ==
    /\ writes.position <= writes.time
    /\ writes.time <= 1
    /\ writes.time = 1 =>
          pc \in {"set_position", "recv"} /\ decision = "Report" /\ result = TRUE
    /\ pc = "recv" =>
          /\ writes.position = writes.time
          /\ writes.time = 1 <=> (decision = "Report" /\ result = TRUE)
    /\ writes.time = 0 => last_request_time = state0.time
    /\ writes.position = 0 => previous_position = state0.position

\* a cycle boundary after a dispatch that changed both fields
C3_Witness ==
    /\ pc = "recv"
    /\ writes = [time |-> 1, position |-> 1]
    /\ previous_position # state0.position
    /\ last_request_time # state0.time

(***************************************************************************)
(* Properties of make_api_request_with_retry (lines 101-124).              *)
(***************************************************************************)
Retried == {"ConnectionError", "Timeout"}

Posts(tr) == SelectSeq(tr, LAMBDA e : e # "sleep")

\* post, sleep, post, ..., post: a sleep between consecutive POSTs only
Alternates(tr) ==
    /\ Len(tr) % 2 = 1
    /\ \A i \in 1..Len(tr) : (tr[i] = "sleep") <=> (i % 2 = 0)

\* C4: a call with max_retries = N >= 1 in which every POST ended in
\* ConnectionError or Timeout returns False after exactly N POSTs, with one
\* sleep between consecutive POSTs and none after the last.
C4_AllAttemptsFailReturnsFailedAfterN ==
    (pc = "returned" /\ max_retries >= 1
        /\ \A i \in 1..Len(trace) : trace[i] \in Retried \cup {"sleep"})
    => /\ result = FALSE
       /\ Len(Posts(trace)) = max_retries
       /\ Len(trace) = 2 * max_retries - 1
       /\ Alternates(trace)

\* three POSTs that all failed, two sleeps, False
C4_Witness ==
    /\ pc = "returned"
    /\ max_retries = 3
    /\ result = FALSE
    /\ trace = <<"Timeout", "sleep", "ConnectionError", "sleep", "Timeout">>

\* C5: a POST that ends in HTTPError or in a RequestException other than
\* ConnectionError and Timeout is the last event of the call, on whichever
\* attempt it happens: the call has returned True and retries no more.
C5_RejectionReturnsSentWithoutRetry ==
    \A i \in 1..Len(trace) :
        trace[i] \in {"HTTPError", "RequestException"}
        => /\ i = Len(trace)
           /\ pc \in {"returned", "set_position", "recv"}
           /\ result = TRUE
           /\ Len(Posts(trace)) <= max_retries

\* a second POST answered with an HTTP error ends a call that could have
\* made three
C5_Witness ==
    /\ pc = "returned"
    /\ max_retries = 3
    /\ result = TRUE
    /\ trace = <<"Timeout", "sleep", "HTTPError">>

(***************************************************************************)
(* Properties of the loop after a dispatch.                                *)
(***************************************************************************)
FailedCycle == pc = "recv" /\ decision = "Report" /\ result = FALSE

\* C6, as claimed: after a Failed dispatch MotionState is unchanged, and
\* with a clock that never went backwards the next decided fix of the same
\* classification as the failed one is decided Report.
C6_NextSameClassFixAlwaysReported ==
    /\ FailedCycle => MotionState = state0
    /\ (monotone /\ retryOf \in {"fresh", "stale"}) => decision = "Report"

\* C6, amended: after a Failed dispatch MotionState is unchanged, and with a
\* clock that never went backwards the next decided fix of the same
\* classification is decided Report and dispatched, provided no dispatch
\* returned Sent in between.
C6_NextSameClassFixReportedUnlessSentBetween ==
    /\ FailedCycle => MotionState = state0
    /\ (monotone /\ retryOf = "fresh") => DecidedAndDispatched(TRUE)

\* a fix decided Report again after a Failed dispatch of its classification
C6_Witness ==
    /\ monotone
    /\ retryOf = "fresh"
    /\ decision = "Report"
    /\ trace # <<>>

\* C7: at the boundary of a cycle whose POST ended in HTTPError or in
\* another RequestException, MotionState holds the position of that fix and
\* the instant the decision read, both assigned once; and a cycle decides
\* Report only when the limit of its classification has elapsed since the
\* instant MotionState held.
C7_RejectionUpdatesMotionState ==
    /\ (pc = "recv" /\ trace # <<>>
            /\ trace[Len(trace)] \in {"HTTPError", "RequestException"})
       => /\ previous_position = FixPosition
          /\ last_request_time = current_time
          /\ writes = [time |-> 1, position |-> 1]
    /\ decision = "Report" =>
          current_time - state0.time >=
              IF has_moved_flag THEN cfg.moving_time_limit
              ELSE cfg.stationary_time_limit

\* a rejected report that moved MotionState to a new position and instant,
\* after a POST that took time
C7_Witness ==
    /\ pc = "recv"
    /\ trace = <<"HTTPError">>
    /\ previous_position = FixPosition
    /\ previous_position # state0.position
    /\ last_request_time = current_time
    /\ clock > current_time

\* C8: after convert_to_osgb36 returned None the cycle is skipped: the loop
\* is back at the receive, nothing was dispatched, MotionState is unchanged
\* and no exception left main.
C8_ProjectionFailureSkipsCycle ==
    projected = None
    => /\ pc = "recv"
       /\ crash = "none"
       /\ trace = <<>>
       /\ MotionState = state0

\* the datagram of this cycle has been through the gate of lines 178-183
Gated ==
    /\ pc # "parse"
    /\ data # Unset
    /\ data # <<>>
    /\ crash # "UnicodeDecodeError"

\* C9: a non-empty datagram that does not parse, or whose accuracy is above
\* 100, ends its cycle at the gate: the loop is back at the receive, nothing
\* was projected, decided or dispatched, and MotionState is unchanged; a fix
\* with accuracy at most 100 goes on to the projection.
C9_GateSkipsUnparsedAndInaccurate ==
    Gated =>
        LET p == parse_nmea_sentence(filter_nmea_sentence(data))
        IN  IF p = None \/ p[3] > ACCURACY_LIMIT * Scale
            THEN /\ pc = "recv"
                 /\ projected = Unset
                 /\ decision = "none"
                 /\ trace = <<>>
                 /\ MotionState = state0
            ELSE pc = "project" \/ projected # Unset

\* a fix of accuracy 100.1 skipped at the gate
C9_Witness ==
    /\ Gated
    /\ pc = "recv"
    /\ parsed_data # None
    /\ parsed_data[3] > ACCURACY_LIMIT * Scale
    /\ projected = Unset

\* C10: the loop has ended only if the receive returned an empty payload.
C10_LoopEndsOnlyOnEmptyPayload ==
    pc \in {"exited", "crashed"} => (pc = "exited" /\ data = <<>>)

(***************************************************************************)
(* Order of the cycles.                                                    *)
(***************************************************************************)
\* C11: one fix is handled at a time, in arrival order: while a call of
\* make_api_request_with_retry is open, the text held is still the datagram
\* of the fix being reported, and when the loop is back at the receive after
\* a cycle that decided Report, the call has returned True or False after
\* its last POST and the update of MotionState that True asks for is done.
C11_DispatchCompletesBeforeNextReceive ==
    /\ InCall =>
          /\ decision = "Report"
          /\ parsed_data = parse_nmea_sentence(filter_nmea_sentence(data))
          /\ payload.x = projected[1] /\ payload.y = projected[2]
    /\ (pc = "recv" /\ decision = "Report") =>
          /\ trace # <<>>
          /\ trace[Len(trace)] # "sleep"
          /\ result = ReturnsTrue(trace[Len(trace)])
          /\ IF result
             THEN /\ writes = [time |-> 1, position |-> 1]
                  /\ MotionState = [position |-> FixPosition, time |-> current_time]
             ELSE MotionState = state0
    /\ pc \in {"parse", "project", "decide"} =>
          trace = <<>> /\ decision = "none"

\* the loop back at the receive with a report sent and MotionState moved
C11_Witness ==
    /\ pc = "recv"
    /\ decision = "Report"
    /\ result = TRUE
    /\ MotionState = [position |-> FixPosition, time |-> current_time]
    /\ MotionState # state0

(***************************************************************************)
(* filter_nmea_sentence and parse_nmea_sentence applied to any text.       *)
(***************************************************************************)
Lat4807   == <<"4", "8", "0", "7", ".", "0", "3", "8">>
LatSigned == <<"-", "1", "3", "0", ".", "0", "0", "0">>
Lon01131  == <<"0", "1", "1", "3", "1", ".", "0", "0", "0">>
LonSigned == <<"-", "0", "1", "3", "0", ".", "0", "0">>

Sentences ==
    { GGA(lat, ns, lon, ew, AccGood) :
        lat \in {Lat0, Lat50, Lat4807, LatSigned, LatBad}, ns \in {"N", "S"},
        lon \in {Lon0, Lon01131, LonSigned}, ew \in {"E", "W"} }

\* what may come before a sentence in its datagram
Before ==
    { <<>>, <<" ">>, <<"\n">>, GPGLL \o <<"\n">>, GPGLL \o <<"\r", "\n">>,
      <<"x">> \o GPGGA \o <<"\n">> }

\* what may come after it
After ==
    { <<>>, <<"\n">>, <<"\r", "\n">> \o GPGLL \o <<"\r", "\n">>,
      <<"\n">> \o GGA(Lat100, "S", Lon0, "W", AccLimit) \o <<"\n">> }

Texts ==
    { b \o s \o a : b \in Before, s \in Sentences, a \in After }
    \cup { <<" ">>, GPGLL, GPGLL \o <<"\n">> \o GPGLL, <<" ">> \o GPGLL \o <<"\n", " ">> \o GPGGA }

\* line 178 applied to a text
ExtractAndParse ==
    /\ pc = "idle"
    /\ \E text \in Texts :
          /\ data' = text
          /\ parsed_data' = parse_nmea_sentence(filter_nmea_sentence(text))
    /\ pc' = "parsed"
    /\ UNCHANGED <<clock, cfg, previous_position, last_request_time,
                   projected, has_moved_flag, current_time, payload, callVars,
                   crash, monotone, history>>

InitParse == InitSend

NextParse == ExtractAndParse

SpecParse == InitParse /\ [][NextParse]_vars

\* the comma-separated field i (0-based) of the sentence extracted from data
Field(i) == Split(filter_nmea_sentence(data), ",")[i + 1]

Accepted == data # Unset /\ parsed_data # Unset /\ parsed_data # None

\* digits and points only: no sign character
Unsigned(field) == \A i \in 1..Len(field) : field[i] \in Digits \cup {"."}

\* every digit of the field is 0
EncodesZero(field) == \A i \in 1..Len(field) : field[i] \in {"0", "."}

\* C12, as claimed: for every sentence parse accepts, S gives a negative
\* latitude and W a negative longitude, N and E give non-negative values.
C12_HemisphereDecidesSign ==
    Accepted =>
        /\ Field(3) = <<"S">> => parsed_data[1] < 0
        /\ Field(5) = <<"W">> => parsed_data[2] < 0
        /\ Field(3) = <<"N">> => parsed_data[1] >= 0
        /\ Field(5) = <<"E">> => parsed_data[2] >= 0

\* C12, amended: for every accepted sentence whose latitude and longitude
\* fields are digits and a point, without a sign character, S gives a
\* latitude that is negative unless the field encodes zero, in which case it
\* is zero, and W the same for the longitude; N and E give non-negative
\* values.
C12_HemisphereDecidesSignOfUnsignedNonZero ==
    (Accepted /\ Unsigned(Field(2)) /\ Unsigned(Field(4))) =>
        /\ Field(3) = <<"S">> =>
              IF EncodesZero(Field(2)) THEN parsed_data[1] = 0
              ELSE parsed_data[1] < 0
        /\ Field(5) = <<"W">> =>
              IF EncodesZero(Field(4)) THEN parsed_data[2] = 0
              ELSE parsed_data[2] < 0
        /\ Field(3) = <<"N">> => parsed_data[1] >= 0
        /\ Field(5) = <<"E">> => parsed_data[2] >= 0
        /\ Field(3) = <<"N">> => (parsed_data[1] = 0 <=> EncodesZero(Field(2)))
        /\ Field(5) = <<"E">> => (parsed_data[2] = 0 <=> EncodesZero(Field(4)))

\* 48 degrees 7.038 minutes south, 11 degrees 31 minutes west
C12_Witness ==
    /\ Accepted
    /\ Field(2) = Lat4807 /\ Field(3) = <<"S">>
    /\ Field(4) = Lon01131 /\ Field(5) = <<"W">>
    /\ parsed_data[1] = 0 - 2887038
    /\ parsed_data[2] = 0 - 691000

\* the pieces of the text between its "\n", once the whitespace around the
\* whole text is dropped: the lines filter_nmea_sentence looks at
Lines(text) == Split(Strip(text), "\n")

Matching(text) ==
    {i \in 1..Len(Lines(text)) : StartsWith(Lines(text)[i], GPGGA)}

\* C13: the sentence extracted from a text is its first line, in order,
\* that starts with $GPGGA, whatever lines come before or after it, and it is
\* the empty string exactly when no line starts with $GPGGA.
C13_ExtractReturnsFirstGPGGALine ==
    (pc = "parsed") =>
        LET extracted == filter_nmea_sentence(data)
            hits      == Matching(data)
        IN  /\ (extracted = <<>>) <=> (hits = {})
            /\ hits # {} =>
                  \E i \in hits :
                      /\ extracted = Lines(data)[i]
                      /\ \A j \in hits : i <= j

\* a $GPGGA line returned from behind a $GPGLL line and before another
\* $GPGGA line
C13_Witness ==
    /\ pc = "parsed"
    /\ Cardinality(Matching(data)) = 2
    /\ 1 \notin Matching(data)
    /\ filter_nmea_sentence(data) = Lines(data)[2]
    /\ filter_nmea_sentence(data) # Lines(data)[3]

(***************************************************************************)
(* More properties of the loop and of the retry loop.                      *)
(***************************************************************************)
\* C14: once the call has returned True, last_request_time is current_time,
\* the instant the decision of this cycle compared with its limit, whatever
\* the clock reads when the POST is over, and at the receive
\* previous_position is the position of the fix just reported.
C14_SentStoresDecisionInstant ==
    /\ writes.time = 1 =>
          /\ last_request_time = current_time
          /\ Reports(has_moved_flag, current_time - state0.time)
    /\ (pc = "recv" /\ decision = "Report" /\ result = TRUE) =>
          /\ previous_position = FixPosition
          /\ last_request_time = current_time

\* a successful POST that took a second: the instant stored is the one
\* before it
C14_Witness ==
    /\ pc = "recv"
    /\ trace = <<"ok">>
    /\ result = TRUE
    /\ last_request_time = current_time
    /\ last_request_time # state0.time
    /\ previous_position = FixPosition
    /\ clock = current_time + 1

CallOpenOrOver == pc \in {"for", "post", "backoff", "returned"}

\* C15: "ok" is only ever the last event of a call, which then has returned
\* True after POSTs that all ended in ConnectionError or Timeout but the
\* last, with a sleep between consecutive POSTs; and no call makes more POSTs
\* than max_retries.
C15_SuccessOnAttemptKReturnsSentAfterK ==
    /\ CallOpenOrOver =>
          Len(Posts(trace)) <= (IF max_retries < 0 THEN 0 ELSE max_retries)
    /\ \A i \in 1..Len(trace) :
          trace[i] = "ok" =>
              /\ i = Len(trace)
              /\ pc = "returned"
              /\ result = TRUE
              /\ Alternates(trace)
              /\ Len(Posts(trace)) = attempt
              /\ \A j \in 1..(i - 1) : trace[j] \in Retried \cup {"sleep"}

\* success on the third of three attempts
C15_Witness ==
    /\ pc = "returned"
    /\ max_retries = 3
    /\ result = TRUE
    /\ trace = <<"ConnectionError", "sleep", "Timeout", "sleep", "ok">>

\* C19: a call with max_retries <= 0 makes no POST and no sleep and returns
\* False.
C19_NoAttemptWithoutRetries ==
    (CallOpenOrOver /\ max_retries <= 0) =>
        /\ pc \in {"for", "returned"}
        /\ trace = <<>>
        /\ pc = "returned" => result = FALSE

\* a call with max_retries = 0 that returned False
C19_Witness ==
    /\ pc = "returned"
    /\ max_retries = 0
    /\ result = FALSE
    /\ trace = <<>>

\* C16: every call main makes has max_retries = 1: it makes one POST and
\* never sleeps, and when that POST ends in ConnectionError or Timeout the
\* call returns False and the cycle leaves MotionState as it was.
C16_ListenerNeverRetries ==
    /\ InCall => max_retries = 1
    /\ Len(trace) <= 1
    /\ \A i \in 1..Len(trace) : trace[i] # "sleep"
    /\ (pc = "recv" /\ decision = "Report") => Len(trace) = 1
    /\ (pc \in {"returned", "recv"} /\ trace # <<>> /\ trace[1] \in Retried) =>
          /\ result = FALSE
          /\ writes = [time |-> 0, position |-> 0]
          /\ MotionState = state0

\* one timeout, no retry, MotionState kept
C16_Witness ==
    /\ pc = "recv"
    /\ decision = "Report"
    /\ trace = <<"Timeout">>
    /\ result = FALSE
    /\ MotionState = state0

MinLimit ==
    IF cfg.moving_time_limit < cfg.stationary_time_limit
    THEN cfg.moving_time_limit
    ELSE cfg.stationary_time_limit

\* C17: while the clock has never gone backwards, a cycle dispatches only at
\* least min(moving_time_limit, stationary_time_limit) after the instant
\* MotionState held (the decision instant of the last Sent dispatch, or the
\* start) and at least that long after the start.
C17_ReportsAtLeastMinLimitApart ==
    /\ (monotone /\ decision = "Report") =>
          /\ current_time - state0.time >= MinLimit
          /\ current_time - StartTime >= MinLimit
          /\ state0.time >= StartTime
    /\ (monotone /\ pc = "recv" /\ writes.time = 1) =>
          last_request_time - state0.time >= MinLimit

\* two consecutive Sent dispatches exactly the smaller limit apart
C17_Witness ==
    /\ monotone
    /\ pc = "recv"
    /\ writes.time = 1
    /\ state0.time > StartTime
    /\ last_request_time - state0.time = MinLimit

\* C18: what main hands to parse_nmea_sentence is the empty string or a line
\* that starts with $GPGGA, so the parser never takes its "Unsupported NMEA
\* sentence" branch in the loop: it returns a fix, or None for an empty or a
\* malformed sentence.
C18_ParserNeverGetsUnsupportedSentence ==
    (data # Unset) =>
        LET sentence == filter_nmea_sentence(data)
            outcome  == ParseOutcome(sentence)
        IN  /\ sentence = <<>> \/ StartsWith(sentence, GPGGA)
            /\ outcome.kind \in {"fix", "empty", "malformed"}
            /\ parsed_data # Unset =>
                  /\ parsed_data = outcome.value
                  /\ (parsed_data = None) <=> (outcome.kind \in {"empty", "malformed"})

\* a datagram of one $GPGLL line reached the parser as the empty string
C18_Witness ==
    /\ pc = "recv"
    /\ data # Unset
    /\ StartsWith(data, GPGLL)
    /\ filter_nmea_sentence(data) = <<>>
    /\ parsed_data = None

====
